---- MODULE Spec2Model ----
(***************************************************************************)
(* FavHome Deliveries (src/app.py): the boot sequence of the module        *)
(* (init_main_db, then safe_startup_sync) and the GitHub-backed mirror of  *)
(* the SQLite file orders.db.                                              *)
(*                                                                         *)
(* Representation.  Byte strings are strings: "" is the zero-length blob,  *)
(* "schema" the database init_main_db creates (two empty tables), "dbA"    *)
(* and "dbB" two databases that hold rows.  Python's None is "None" for    *)
(* byte strings, <<>> for the revision token and the commit date, and 0    *)
(* for numbers (status code, epoch): the code only ever tests these        *)
(* numbers for truthiness, where None and 0 behave alike.  Times are whole *)
(* seconds starting at 1; a file or a commit stamped exactly at the Unix   *)
(* epoch (second 0) is not among the states considered.  Writing the local *)
(* file is assumed to succeed (no disk failure).                           *)
(***************************************************************************)
EXTENDS Integers, Sequences, FiniteSets, TLC

VARIABLES
    cfg,          \* GITHUB_TOKEN and GITHUB_REPO are both set
    entry,        \* "boot": module start-up; "call": safe_startup_sync called on its own
    pc,           \* position of the process
    now,          \* wall clock, seconds
    run,          \* number of the current reconciler run
    localFile,    \* orders.db on disk: [content, mtime], or NoFile
    remoteFile,   \* blob at GITHUB_DB_PATH: [content, date], or NoFile
    backups,      \* blobs stored at GITHUB_DB_PATH.bak.<name>: set of [name, content]
    sync,         \* local variables of safe_startup_sync
    branch,       \* branch of safe_startup_sync taken in the current run
    writes,       \* remote PUT requests issued in the current run, in order
    startLocal,   \* orders.db when the current run started
    startRemote,  \* remote blob when the current run started
    syncLocal,    \* orders.db when safe_startup_sync was entered in the current run
    netOk,        \* every network call made so far was answered with success
    call,         \* the last call of a pure function: its arguments and result
    db,           \* the rows of orders.db: [orders, market, oseq, mseq]
    thr           \* the request-handling threads of the HTTP surface, one per request

vars == <<cfg, entry, pc, now, run, localFile, remoteFile, backups, sync,
          branch, writes, startLocal, startRemote, syncLocal, netOk,
          call, db, thr>>

----------------------------------------------------------------------------
(* Bounds *)

MaxInitTime == 3
MaxTime == 5
MaxRuns == 2

(* Program constant: the +1 second tolerance of the timestamp comparison *)
Tolerance == 1

----------------------------------------------------------------------------
(* Values *)

Contents == {"", "schema", "dbA", "dbB"}

NoFile == [content |-> "NoFile", mtime |-> 0]
NoBlob == [content |-> "NoFile", date |-> 0]
NoSha == <<>>
NoDate == <<>>

FetchOutcomes == {"ok", "neterr", "http_error", "badjson", "undecodable"}
CommitOutcomes == {"ok", "fail"}
PutOutcomes == {"processed", "neterr", "http_error"}

NoSync == [status |-> 0, remote_content |-> "None", remote_sha |-> NoSha,
           remote_epoch |-> 0, local_exists |-> FALSE, local_epoch |-> 0,
           local_bytes |-> "None", timestamp |-> 0]

----------------------------------------------------------------------------
(* Pure helpers *)

\* _sha256_of_bytes: a collision-free digest of the bytes
_sha256_of_bytes(b) == <<"sha256", b>>

\* the revision token ("sha") the contents API reports for a blob
BlobSha(c) == <<"blob", c>>

\* the commit date as the commits API reports it (ISO string of a second)
IsoDate(t) == <<"iso", t>>

\* iso_to_epoch: seconds of an ISO date; None for a missing date
iso_to_epoch(iso_str) == IF iso_str = NoDate THEN 0 ELSE iso_str[2]

\* Python truthiness of a bytes-or-None value
Truthy(b) == b # "None" /\ b # ""

\* get_remote_file_info, given how the contents request (o) and the commits
\* request (co) are answered
get_remote_file_info(configured, remote, o, co) ==
    LET none == [status |-> 0, content |-> "None", sha |-> NoSha,
                 commit_date |-> NoDate, raised |-> FALSE]
        date == IF co = "ok" THEN IsoDate(remote.date) ELSE NoDate
    IN  IF ~configured THEN none
        ELSE IF o = "neterr" THEN none
        ELSE IF o = "http_error" THEN [none EXCEPT !.status = 500]
        ELSE IF o = "badjson" THEN [none EXCEPT !.status = 200, !.raised = TRUE]
        ELSE IF remote = NoBlob THEN [none EXCEPT !.status = 404]
        ELSE IF o = "undecodable"
             THEN [none EXCEPT !.status = 200, !.sha = BlobSha(remote.content),
                               !.commit_date = date]
        ELSE [status |-> 200, content |-> remote.content,
              sha |-> BlobSha(remote.content), commit_date |-> date,
              raised |-> FALSE]

\* init_main_db: sqlite3.connect + CREATE TABLE IF NOT EXISTS.  A missing or
\* zero-length file becomes a database with the two empty tables; a database
\* that already has the tables is not written.
init_main_db(file, t) ==
    IF file = NoFile \/ file.content = ""
    THEN [content |-> "schema", mtime |-> t]
    ELSE file

\* mutants of RemoteNewer: the comparison reversed; the tolerance dropped
RemoteNewerReversed(remote_epoch, local_epoch) == local_epoch > remote_epoch + Tolerance

RemoteNewerNoTolerance(remote_epoch, local_epoch) == remote_epoch > local_epoch

\* the timestamp comparisons of safe_startup_sync
RemoteNewer(remote_epoch, local_epoch) == remote_epoch > local_epoch + Tolerance

LocalNewer(remote_epoch, local_epoch) == local_epoch > remote_epoch + Tolerance

\* the branch safe_startup_sync takes, from the values it has read
Branch(status, remote_content, local_exists, remote_epoch, local_epoch, local_content) ==
    IF status = 200 /\ remote_content # "None"
    THEN IF ~local_exists THEN "create_local"
         ELSE IF remote_epoch # 0 /\ local_epoch # 0
         THEN IF RemoteNewer(remote_epoch, local_epoch) THEN "remote_newer"
              ELSE IF LocalNewer(remote_epoch, local_epoch) THEN "local_newer"
              ELSE IF _sha256_of_bytes(local_content) # _sha256_of_bytes(remote_content)
                   THEN "conflict"
                   ELSE "identical"
         ELSE IF _sha256_of_bytes(local_content) = _sha256_of_bytes(remote_content)
              THEN "identical_nodate"
              ELSE IF local_epoch # 0 /\ (remote_epoch = 0 \/ local_epoch >= remote_epoch)
                   THEN "nodate_push"
                   ELSE "nodate_pull"
    ELSE IF local_exists THEN "initial_upload" ELSE "nothing"

\* mutant of PullBranches: a newer remote is not written to the local file
PullBranchesNoRemoteNewer == {"create_local", "nodate_pull"}

\* the branches that write the remote content to the local file
PullBranches == {"create_local", "remote_newer", "nodate_pull"}
PushBranches == {"local_newer", "conflict", "nodate_push", "initial_upload"}

\* mutants of NeedsBackup: the conflict branches skip the backup; every
\* upload is preceded by a backup
NeedsBackupNewerOnly(b, remote_content) == b = "local_newer" /\ Truthy(remote_content)

NeedsBackupEveryUpload(b, remote_content) == b \in PushBranches

\* does the branch issue the backup PUT of the remote content
NeedsBackup(b, remote_content) ==
    \/ b = "local_newer" /\ Truthy(remote_content)
    \/ b \in {"conflict", "nodate_push"}

\* mutant of PutSha: the revision token is never passed
PutShaNever(b, remote_sha) == NoSha

\* the existing_sha argument of the primary-path PUT
PutSha(b, remote_sha) ==
    IF b = "initial_upload" THEN NoSha ELSE remote_sha

\* does the branch read the local bytes before the backup PUT
ReadsBeforeBackup(b) == b \in {"conflict", "nodate_push"}

\* the contents API's answer to a PUT, given how the request fares (o):
\* 0 when the request raised, else the status code
PutStatus(remote, bks, path, name, sha, o) ==
    IF o = "neterr" THEN 0
    ELSE IF o = "http_error" THEN 500
    ELSE IF path = "backup"
         THEN IF \E b \in bks : b.name = name THEN 422 ELSE 201
    ELSE IF remote = NoBlob
         THEN IF sha = NoSha THEN 201 ELSE 422
    ELSE IF sha = NoSha THEN 422
    ELSE IF sha = BlobSha(remote.content) THEN 200 ELSE 409

Accepted(st) == st \in {200, 201}

\* upload_bytes_to_github: the log entry of the request
PutRecord(remote, bks, path, name, content, sha, o) ==
    [path |-> path, name |-> name, content |-> content, sha |-> sha,
     status |-> PutStatus(remote, bks, path, name, sha, o),
     replaced |-> IF path = "primary" THEN remote.content ELSE "NoFile"]

----------------------------------------------------------------------------
(* Text.  The strings the fee calculator looks into are sequences of        *)
(* characters, so that lower(), strip(), "in", split() and int() are        *)
(* computed as Python computes them.                                        *)

Uppers == <<"A", "B", "C", "D", "E", "F", "G", "H", "I", "J", "K", "L", "M",
            "N", "O", "P", "Q", "R", "S", "T", "U", "V", "W", "X", "Y", "Z">>
Lowers == <<"a", "b", "c", "d", "e", "f", "g", "h", "i", "j", "k", "l", "m",
            "n", "o", "p", "q", "r", "s", "t", "u", "v", "w", "x", "y", "z">>
Digits == <<"0", "1", "2", "3", "4", "5", "6", "7", "8", "9">>

LowerChar(c) ==
    IF \E i \in DOMAIN Uppers : Uppers[i] = c
    THEN Lowers[CHOOSE i \in DOMAIN Uppers : Uppers[i] = c]
    ELSE c

\* str.lower
lower(s) == [i \in 1..Len(s) |-> LowerChar(s[i])]

\* str.strip (blanks)
strip(s) ==
    LET idx == {i \in 1..Len(s) : s[i] # " "}
    IN  IF idx = {} THEN <<>>
        ELSE SubSeq(s, CHOOSE i \in idx : \A j \in idx : i <= j,
                       CHOOSE i \in idx : \A j \in idx : i >= j)

\* s.replace(' ', '')
RemoveSpaces(s) == SelectSeq(s, LAMBDA c : c # " ")

\* the positions at which sub occurs in s
Occurrences(sub, s) ==
    {i \in 1..(Len(s) - Len(sub) + 1) : SubSeq(s, i, i + Len(sub) - 1) = sub}

\* sub in s
Contains(sub, s) == Occurrences(sub, s) # {}

\* s.split(sub)[0]
Before(sub, s) ==
    LET occ == Occurrences(sub, s)
    IN  IF occ = {} THEN s
        ELSE SubSeq(s, 1, (CHOOSE i \in occ : \A j \in occ : i <= j) - 1)

IsDigitChar(c) == \E i \in DOMAIN Digits : Digits[i] = c

\* str.isdigit
isdigit(s) == Len(s) > 0 /\ \A i \in 1..Len(s) : IsDigitChar(s[i])

RECURSIVE DigitsVal(_)
DigitsVal(s) ==
    IF s = <<>> THEN 0
    ELSE 10 * DigitsVal(SubSeq(s, 1, Len(s) - 1))
         + (CHOOSE i \in DOMAIN Digits : Digits[i] = s[Len(s)]) - 1

Unsigned(s) == IF Len(s) > 0 /\ s[1] \in {"+", "-"} THEN Tail(s) ELSE s

\* int(s) raises ValueError unless s is an optional sign and digits
IntOk(s) == isdigit(Unsigned(s))

\* int(s)
IntVal(s) ==
    IF Len(s) > 0 /\ s[1] = "-" THEN 0 - DigitsVal(Unsigned(s))
    ELSE DigitsVal(Unsigned(s))

----------------------------------------------------------------------------
(* Fee calculator *)

\* normalize_location
normalize_location(s) == lower(strip(s))

\* is_night_time; any exception is caught and gives False
is_night_time(tstr) ==
    IF tstr = <<>> THEN FALSE
    ELSE LET s == RemoveSpaces(lower(tstr))
             pm == <<"p", "m">>
             am == <<"a", "m">>
             colon == <<":">>
         IN  IF Contains(pm, s)
             THEN LET x == Before(colon, Before(pm, s))
                  IN  IF ~IntOk(x) THEN FALSE
                      ELSE LET h == (IntVal(x) % 12) + 12
                           IN  h >= 21 \/ h < 6
             ELSE IF Contains(am, s)
             THEN LET x == Before(colon, Before(am, s))
                  IN  IF ~IntOk(x) THEN FALSE
                      ELSE LET h == IntVal(x) % 24
                           IN  h < 6
             ELSE IF Contains(colon, s)
             THEN LET x == Before(colon, s)
                  IN  IF ~IntOk(x) THEN FALSE
                      ELSE LET h == IntVal(x)
                           IN  h >= 21 \/ h < 6
             ELSE IF isdigit(s)
             THEN LET h == IntVal(s) % 24
                  IN  h >= 21 \/ h < 6
             ELSE FALSE

SupermarketWords == {<<"s", "u", "p", "e", "r", "m", "a", "r", "k", "e", "t">>, <<"s", "h", "o", "p">>, <<"m", "a", "r", "k", "e", "t">>, <<"g", "r", "o", "c", "e", "r", "y">>, <<"g", "r", "o", "c", "e", "r", "i", "e", "s">>}

HeavyWords == {<<"w", "a", "t", "e", "r">>, <<"j", "e", "r", "r", "y">>, <<"s", "a", "c", "k">>, <<"s", "a", "c", "k", "s">>, <<"b", "i", "g">>, <<"h", "e", "a", "v", "y">>}

\* compute_fee, lines 397-402: the base from the normalised locations
FeeBase(p, d) ==
    LET ebenezer == <<"e", "b", "e", "n", "e", "z", "e", "r">>
        matangi == <<"m", "a", "t", "a", "n", "g", "i">>
        juja == <<"j", "u", "j", "a">>
        jk == <<"j", "k">>
        jkuat == <<"j", "k", "u", "a", "t">>
    IN  IF \/ Contains(ebenezer, p) /\ Contains(ebenezer, d)
           \/ Contains(matangi, p) /\ Contains(matangi, d)
        THEN 79
        ELSE IF \/ Contains(juja, p) \/ Contains(juja, d)
                \/ Contains(jk, p) \/ Contains(jkuat, p)
        THEN 99
        ELSE 150

\* compute_fee, lines 404-412: extras.append(tag); base += amount
AddExtra(acc, matched, tag, amount) ==
    IF matched
    THEN [fee |-> acc.fee + amount, extras |-> Append(acc.extras, tag)]
    ELSE acc

\* compute_fee
compute_fee(pickup, drop, items, preferred_time) ==
    LET p == normalize_location(pickup)
        d == normalize_location(drop)
        it == lower(items)
        a0 == [fee |-> FeeBase(p, d), extras |-> <<>>]
        a1 == AddExtra(a0, \E k \in SupermarketWords : Contains(k, it),
                       "supermarket_pickup", 20)
        a2 == AddExtra(a1, \E k \in HeavyWords : Contains(k, it),
                       "heavy_item", 40)
        a3 == AddExtra(a2, is_night_time(preferred_time), "night", 30)
    IN  a3

----------------------------------------------------------------------------
(* Admin check *)

\* Python's "a or b" on strings
Or(a, b) == IF Truthy(a) THEN a ELSE b

\* lines 28 and 363-367: ADMIN_KEY from FAVHOME_ADMIN_KEY, else from app.db
ResolveAdminKey(env, db_pw) ==
    LET key0 == IF env = "None" THEN "change_me" ELSE env
    IN  IF (~Truthy(env) \/ key0 = "change_me") /\ Truthy(db_pw)
        THEN db_pw
        ELSE key0

\* is_admin_key: compare with the password row of app.db
is_admin_key(k, db_pw) ==
    IF db_pw = "None" THEN FALSE ELSE k = db_pw

\* mutants of require_admin: only ADMIN_KEY is compared; every request passes
require_admin_key_only(header, query, is_json, body, admin_key, db_pw) ==
    LET key0 == Or(header, query)
        key == IF ~Truthy(key0) /\ is_json THEN body ELSE key0
    IN  Truthy(key) /\ key = admin_key

require_admin_anyone(header, query, is_json, body, admin_key, db_pw) == TRUE

\* require_admin: header is X-ADMIN-KEY, query is ?admin_key=, body is the
\* admin_key / adminKey / admin field of a JSON body
require_admin(header, query, is_json, body, admin_key, db_pw) ==
    LET key0 == Or(header, query)
        key == IF ~Truthy(key0) /\ is_json THEN body ELSE key0
    IN  IF ~Truthy(key) THEN FALSE
        ELSE IF key = admin_key THEN TRUE
        ELSE is_admin_key(key, db_pw)

----------------------------------------------------------------------------
(* Arguments the pure functions are applied to.  zone, supermarket, heavy   *)
(* and hour say what the text means: the zone a location names, whether the *)
(* items name shopping or something heavy, the hour of day a time denotes   *)
(* (-1: not a time).                                                        *)

Locations == {
    [text |-> <<"E", "b", "e", "n", "e", "z", "e", "r", " ", "H", "o", "s", "t", "e", "l">>, zone |-> "ebenezer"],
    [text |-> <<"E", "b", "e", "n", "e", "z", "e", "r", " ", "G", "a", "t", "e">>, zone |-> "ebenezer"],
    [text |-> <<"M", "a", "t", "a", "n", "g", "i">>, zone |-> "matangi"],
    [text |-> <<" ", "j", "u", "j", "a", " ", "t", "o", "w", "n">>, zone |-> "secondary"],
    [text |-> <<"J", "K", "U", "A", "T">>, zone |-> "secondary"],
    [text |-> <<"T", "h", "i", "k", "a">>, zone |-> "other"],
    [text |-> <<>>, zone |-> "other"] }

ItemTexts == {
    [text |-> <<"g", "r", "o", "c", "e", "r", "i", "e", "s", " ", "a", "n", "d", " ", "w", "a", "t", "e", "r">>, supermarket |-> TRUE, heavy |-> TRUE],
    [text |-> <<"w", "a", "t", "e", "r">>, supermarket |-> FALSE, heavy |-> TRUE],
    [text |-> <<"s", "h", "o", "p">>, supermarket |-> TRUE, heavy |-> FALSE],
    [text |-> <<"b", "o", "o", "k">>, supermarket |-> FALSE, heavy |-> FALSE],
    [text |-> <<>>, supermarket |-> FALSE, heavy |-> FALSE],
    [text |-> <<"H", "e", "a", "v", "y", " ", "S", "a", "c", "k">>, supermarket |-> FALSE, heavy |-> TRUE] }

TimeTexts == {
    [text |-> <<"1", "0", "p", "m">>, hour |-> 22],
    [text |-> <<"9", "p", "m">>, hour |-> 21],
    [text |-> <<"2", "2", ":", "0", "0">>, hour |-> 22],
    [text |-> <<"0", "6", ":", "0", "0">>, hour |-> 6],
    [text |-> <<>>, hour |-> -1],
    [text |-> <<"1", "2", "a", "m">>, hour |-> 0],
    [text |-> <<"1", "2", "p", "m">>, hour |-> 12],
    [text |-> <<"5">>, hour |-> 5],
    [text |-> <<"2", "1">>, hour |-> 21],
    [text |-> <<"a", "b", "c">>, hour |-> -1],
    [text |-> <<"6", "a", "m">>, hour |-> 6],
    [text |-> <<"1", "1", " ", "P", "M">>, hour |-> 23],
    [text |-> <<"8", ":", "3", "0", "p", "m">>, hour |-> 20],
    [text |-> <<"3", "a", "m">>, hour |-> 3],
    [text |-> <<"2", "0", ":", "5", "9">>, hour |-> 20] }

EnvKeys == {"None", "", "change_me", "envkey"}
DbPasswords == {"1q2w3e", "dbpw"}
RequestKeys == {"None", "", "envkey", "1q2w3e", "dbpw", "wrong"}

NoCall == [op |-> "none"]

----------------------------------------------------------------------------
(* The rows of orders.db *)

EmptyRows == << >>

NoTables == [orders |-> EmptyRows, market |-> EmptyRows, oseq |-> 0, mseq |-> 0, ver |-> 0]

\* an Order row as INSERT INTO orders stores it (status and payment_status
\* take the column default '')
OrderRow(pickup, drop_loc, fee, extras) ==
    [pickup |-> pickup, drop_loc |-> drop_loc, fee |-> fee, extras |-> extras,
     status |-> "", payment_status |-> ""]

\* a Listing row as INSERT INTO market stores it (status takes the column
\* default '')
ListingRow(title, description, price, payment) ==
    [title |-> title, description |-> description, price |-> price,
     payment |-> payment, status |-> ""]

\* the rows held by the database blobs the reconciler moves around: "dbA"
\* and "dbB" hold one order and one listing each, the others hold no row
TablesOf(content) ==
    IF content \in {"dbA", "dbB"}
    THEN [orders |-> 1 :> OrderRow(<<"a">>, <<"b">>, 150, <<>>),
          market |-> 1 :> ListingRow(content, "d", 10, "cash"),
          oseq |-> 1, mseq |-> 1, ver |-> 0]
    ELSE NoTables

\* the bytes of orders.db after the ver-th committed write of this process
VerName(ver) == "v" \o ToString(ver)

Threads == {"t1", "t2"}

NoPut == [path |-> "none", name |-> 0, content |-> "None", sha |-> NoSha,
          status |-> 0, replaced |-> "NoFile"]

\* a thread that has not been given its request yet.  kind, key, id, field
\* and bad are the request; the rest is what the handler has done so far
Idle == [pc |-> "new", kind |-> "none", key |-> "None", id |-> 0,
         field |-> "none", bad |-> FALSE,
         committed |-> FALSE, ver |-> 0,
         readVer |-> 0, bytes |-> "None",
         getRemote |-> "None", sha |-> NoSha,
         put |-> NoPut, response |-> 0,
         body |-> [orders |-> EmptyRows, market |-> EmptyRows]]

----------------------------------------------------------------------------
(* Initial states *)

Files == {NoFile} \cup [content : Contents, mtime : 1..MaxInitTime]
Blobs == {NoBlob} \cup [content : Contents, date : 1..MaxInitTime]

StartPc(e) == IF e = "boot" THEN "init_main_db" ELSE "sync"

Init ==
    /\ cfg \in BOOLEAN
    /\ entry \in {"boot", "call"}
    /\ pc = StartPc(entry)
    /\ now = MaxInitTime
    /\ run = 1
    /\ localFile \in Files
    /\ remoteFile \in Blobs
    /\ backups = {}
    /\ sync = NoSync
    /\ branch = "none"
    /\ writes = <<>>
    /\ startLocal = localFile
    /\ startRemote = remoteFile
    /\ syncLocal = localFile
    /\ netOk = TRUE
    /\ call = NoCall
    /\ db = TablesOf(localFile.content)
    /\ thr = [t \in Threads |-> Idle]

----------------------------------------------------------------------------
(* Actions *)

\* time passes
Tick ==
    /\ pc # "crashed"
    /\ now < MaxTime
    /\ now' = now + 1
    /\ UNCHANGED <<cfg, entry, pc, run, localFile, remoteFile, backups, sync,
                   branch, writes, startLocal, startRemote, syncLocal, netOk>>
    /\ UNCHANGED <<call, db, thr>>

\* module start-up, line 995: init_main_db()
InitMainDb ==
    /\ pc = "init_main_db"
    /\ localFile' = init_main_db(localFile, now)
    /\ syncLocal' = localFile'
    /\ pc' = "sync"
    /\ UNCHANGED <<cfg, entry, now, run, remoteFile, backups, sync, branch,
                   writes, startLocal, startRemote, netOk>>
    /\ db' = TablesOf(localFile'.content)
    /\ UNCHANGED <<call, thr>>

\* safe_startup_sync, lines 132-135: mirror not configured
SyncDisabled ==
    /\ pc = "sync"
    /\ ~cfg
    /\ branch' = "disabled"
    /\ pc' = "done"
    /\ UNCHANGED <<cfg, entry, now, run, localFile, remoteFile, backups, sync,
                   writes, startLocal, startRemote, syncLocal, netOk>>
    /\ UNCHANGED <<call, db, thr>>

\* safe_startup_sync, lines 137-150: fetch the remote, stat the local file
Fetch ==
    /\ pc = "sync"
    /\ cfg
    /\ \E o \in FetchOutcomes, co \in CommitOutcomes :
         LET info == get_remote_file_info(cfg, remoteFile, o, co)
         IN  /\ netOk' = (netOk /\ o = "ok" /\ (remoteFile # NoBlob => co = "ok"))
             /\ IF info.raised
                THEN /\ pc' = "crashed"
                     /\ UNCHANGED sync
                ELSE /\ pc' = "decide"
                     /\ sync' = [NoSync EXCEPT
                            !.status = info.status,
                            !.remote_content = info.content,
                            !.remote_sha = info.sha,
                            !.remote_epoch = iso_to_epoch(info.commit_date),
                            !.local_exists = (localFile # NoFile),
                            !.local_epoch = localFile.mtime]
    /\ UNCHANGED <<cfg, entry, now, run, localFile, remoteFile, backups,
                   branch, writes, startLocal, startRemote, syncLocal>>
    /\ UNCHANGED <<call, db, thr>>

\* safe_startup_sync, lines 153-269: choose the branch; the branches that
\* write the local file or do nothing finish here
Decide ==
    /\ pc = "decide"
    /\ LET b == Branch(sync.status, sync.remote_content, sync.local_exists,
                       sync.remote_epoch, sync.local_epoch, localFile.content)
       IN  /\ branch' = b
           /\ IF b \in PullBranches
              THEN /\ localFile' = [content |-> sync.remote_content, mtime |-> now]
                   /\ pc' = "done"
                   /\ UNCHANGED sync
              ELSE IF b \in PushBranches
              THEN /\ sync' = [sync EXCEPT
                          !.timestamp = now,
                          !.local_bytes = IF ReadsBeforeBackup(b)
                                          THEN localFile.content ELSE "None"]
                   /\ pc' = IF NeedsBackup(b, sync.remote_content)
                            THEN "backup" ELSE "put"
                   /\ UNCHANGED localFile
              ELSE /\ pc' = "done"
                   /\ UNCHANGED <<localFile, sync>>
    /\ UNCHANGED <<cfg, entry, now, run, remoteFile, backups, writes,
                   startLocal, startRemote, syncLocal, netOk>>
    /\ db' = TablesOf(localFile'.content)
    /\ UNCHANGED <<call, thr>>

\* upload_bytes_to_github(backup_path, remote_content, ...); the result is
\* not looked at
Backup ==
    /\ pc = "backup"
    /\ \E o \in PutOutcomes :
         LET rec == PutRecord(remoteFile, backups, "backup", sync.timestamp,
                              sync.remote_content, NoSha, o)
         IN  /\ writes' = Append(writes, rec)
             /\ backups' = IF Accepted(rec.status)
                           THEN backups \cup {[name |-> rec.name, content |-> rec.content]}
                           ELSE backups
             /\ netOk' = (netOk /\ Accepted(rec.status))
    /\ pc' = "put"
    /\ UNCHANGED <<cfg, entry, now, run, localFile, remoteFile, sync, branch,
                   startLocal, startRemote, syncLocal>>
    /\ UNCHANGED <<call, db, thr>>

\* upload_bytes_to_github(GITHUB_DB_PATH, local_bytes, ..., existing_sha)
PutPrimary ==
    /\ pc = "put"
    /\ \E o \in PutOutcomes :
         LET bytes == IF sync.local_bytes = "None"
                      THEN localFile.content ELSE sync.local_bytes
             rec == PutRecord(remoteFile, backups, "primary", 0, bytes,
                              PutSha(branch, sync.remote_sha), o)
         IN  /\ writes' = Append(writes, rec)
             /\ remoteFile' = IF Accepted(rec.status)
                              THEN [content |-> bytes, date |-> now]
                              ELSE remoteFile
             /\ netOk' = (netOk /\ Accepted(rec.status))
    /\ pc' = "done"
    /\ UNCHANGED <<cfg, entry, now, run, localFile, backups, sync, branch,
                   startLocal, startRemote, syncLocal>>
    /\ UNCHANGED <<call, db, thr>>

\* the process is started again (or the reconciler is called again); no
\* request has changed the local database in between
Restart ==
    /\ pc = "done"
    /\ run < MaxRuns
    /\ run' = run + 1
    /\ pc' = StartPc(entry)
    /\ sync' = NoSync
    /\ branch' = "none"
    /\ writes' = <<>>
    /\ startLocal' = localFile
    /\ startRemote' = remoteFile
    /\ syncLocal' = localFile
    /\ UNCHANGED <<cfg, entry, now, localFile, remoteFile, backups, netOk>>
    /\ UNCHANGED <<call, db, thr>>

Next ==
    \/ Tick
    \/ InitMainDb
    \/ SyncDisabled
    \/ Fetch
    \/ Decide
    \/ Backup
    \/ PutPrimary
    \/ Restart

Spec == Init /\ [][Next]_vars

----------------------------------------------------------------------------
(* The pure functions applied to arguments: a specification of its own, in  *)
(* which the process is up, one call is made on arguments drawn from the    *)
(* argument sets, and the call leaves the rest alone.                       *)

InitFn ==
    /\ cfg = FALSE
    /\ entry = "boot"
    /\ pc = "done"
    /\ now = MaxInitTime
    /\ run = 1
    /\ localFile = [content |-> "schema", mtime |-> 1]
    /\ remoteFile = NoBlob
    /\ backups = {}
    /\ sync = NoSync
    /\ branch = "disabled"
    /\ writes = <<>>
    /\ startLocal = localFile
    /\ startRemote = remoteFile
    /\ syncLocal = localFile
    /\ netOk = TRUE
    /\ call = NoCall
    /\ db = TablesOf(localFile.content)
    /\ thr = [t \in Threads |-> Idle]

bootVars == <<cfg, entry, pc, now, run, localFile, remoteFile, backups, sync,
              branch, writes, startLocal, startRemote, syncLocal, netOk>>

\* compute_fee(pickup, drop, items, preferred_time)
CallComputeFee ==
    /\ call = NoCall
    /\ \E p \in Locations, d \in Locations, it \in ItemTexts, t \in TimeTexts :
         LET r == compute_fee(p.text, d.text, it.text, t.text)
         IN  call' = [op |-> "compute_fee", pickup |-> p, drop |-> d,
                      items |-> it, time |-> t, fee |-> r.fee,
                      extras |-> r.extras]
    /\ UNCHANGED <<bootVars, db, thr>>

\* is_night_time(tstr)
CallIsNightTime ==
    /\ call = NoCall
    /\ \E t \in TimeTexts :
         call' = [op |-> "is_night_time", time |-> t,
                  result |-> is_night_time(t.text)]
    /\ UNCHANGED <<bootVars, db, thr>>

\* require_admin(request), with ADMIN_KEY resolved as at import
CallRequireAdmin ==
    /\ call = NoCall
    /\ \E env \in EnvKeys, pw \in DbPasswords, h \in RequestKeys,
          q \in RequestKeys, j \in BOOLEAN, b \in RequestKeys :
         LET admin_key == ResolveAdminKey(env, pw)
         IN  call' = [op |-> "require_admin", env |-> env, db_pw |-> pw,
                      header |-> h, query |-> q, is_json |-> j, body |-> b,
                      admin_key |-> admin_key,
                      result |-> require_admin(h, q, j, b, admin_key, pw)]
    /\ UNCHANGED <<bootVars, db, thr>>

NextFn ==
    \/ CallComputeFee
    \/ CallIsNightTime
    \/ CallRequireAdmin

SpecFn == InitFn /\ [][NextFn]_vars

----------------------------------------------------------------------------
(* The HTTP surface.  Each request is handled by a thread of its own; a     *)
(* handler checks the key, changes rows and commits in one step (the        *)
(* database engine serialises writers), then calls upload_db_to_github,     *)
(* whose file read and two network calls are steps of their own, and only   *)
(* then returns its response.                                               *)

\* lines 999-1003: app.run is reached when safe_startup_sync has returned
\* (mutant: requests are served while the module is still starting)
ServingAnyTime == pc # "crashed"
Serving == pc = "done"

\* what the process is configured with: FAVHOME_ADMIN_KEY unset, the
\* password row init_admin inserts
DbPassword == "1q2w3e"
AdminKey == ResolveAdminKey("None", DbPassword)

Ids == {1, 2}
OrderFields == {"pickup", "drop_loc", "fee"}
MarketFields == {"title", "description", "price", "status"}

\* edit_order, line 871: the fields an edit may name (mutant: the fee too)
OrderEditableWithFee == {"pickup", "drop_loc", "fee"}
OrderEditable == {"pickup", "drop_loc"}

\* edit_market, line 888: the fields an edit may name (mutant: the status
\* too)
MarketEditableWithStatus == {"title", "description", "price", "status"}
MarketEditable == {"title", "description", "price"}

\* the values an edit request carries for a field
NewValue(field) ==
    IF field \in {"pickup", "drop_loc"} THEN <<"x">>
    ELSE IF field \in {"price", "fee"} THEN 7
    ELSE "x"

\* the orders POST /order is given
OrderInputs == {
    [pickup |-> <<"E", "b", "e", "n", "e", "z", "e", "r", " ", "H", "o", "s", "t", "e", "l">>,
     drop |-> <<"E", "b", "e", "n", "e", "z", "e", "r", " ", "G", "a", "t", "e">>,
     items |-> <<"g", "r", "o", "c", "e", "r", "i", "e", "s", " ", "a", "n", "d", " ", "w", "a", "t", "e", "r">>,
     time |-> <<"1", "0", "p", "m">>] }

\* the requests an admin route is given: every id with the right key, and
\* one request with a wrong key
AdminRequests(kind) ==
    {[Idle EXCEPT !.kind = kind, !.key = DbPassword, !.id = i] : i \in Ids}
    \cup {[Idle EXCEPT !.kind = kind, !.key = "wrong", !.id = 1]}

EditRequests(kind, fields) ==
    {[Idle EXCEPT !.kind = kind, !.key = DbPassword, !.id = i, !.field = f] :
        i \in Ids, f \in fields}
    \cup {[Idle EXCEPT !.kind = kind, !.key = "wrong", !.id = 1,
                       !.field = CHOOSE f \in fields : f \in {"pickup", "title"}]}

\* the requests a route without a key check is given
PublicRequests(kind, ids) ==
    {[Idle EXCEPT !.kind = kind, !.id = i, !.bad = b] : i \in ids, b \in BOOLEAN}

\* require_admin(request) for a request carrying its key in the header
CheckAdmin(req) == require_admin(req.key, "None", FALSE, "None", AdminKey, DbPassword)

\* UPDATE t SET f=v WHERE id=?
Update(rows, id, f, v) ==
    IF id \in DOMAIN rows
    THEN [rows EXCEPT ![id] = [@ EXCEPT ![f] = v]]
    ELSE rows

\* DELETE FROM t WHERE id=?
Delete(rows, id) == [i \in (DOMAIN rows) \ {id} |-> rows[i]]

\* INSERT INTO t
Insert(rows, id, row) ==
    [i \in (DOMAIN rows) \cup {id} |-> IF i = id THEN row ELSE rows[i]]

\* the response of a handler once upload_db_to_github has returned: the
\* push reports nothing back (mutant: a failed put is reported)
HandlerResponseSurfaced(put_status) == IF Accepted(put_status) THEN 200 ELSE 500
HandlerResponse(put_status) == 200

\* a thread is given a request once the server runs; threads are numbered
\* in the order their requests arrive
Accept(t) ==
    /\ Serving
    /\ thr[t].pc = "new"
    /\ t = "t2" => thr["t1"].pc # "new"

\* the handler returns without touching the database
Refuse(t, req, code) ==
    /\ thr' = [thr EXCEPT ![t] = [req EXCEPT !.pc = "done", !.response = code]]
    /\ UNCHANGED <<db, localFile>>

\* the handler returns the rows it read
Serve(t, req, orders, market) ==
    /\ thr' = [thr EXCEPT ![t] = [req EXCEPT
                  !.pc = "done", !.response = 200,
                  !.body = [orders |-> orders, market |-> market]]]
    /\ UNCHANGED <<db, localFile>>

\* fetch_market_rows: every listing, or with public=True those whose
\* status is 'available'
fetch_market_rows(market, public) ==
    [i \in {j \in DOMAIN market : ~public \/ market[j].status = "available"}
       |-> market[i]]

\* the columns of orders that public_orders selects
PublicOrderColumns == {"pickup", "drop_loc", "fee", "extras", "status"}

\* conn.commit() of the statement that leaves the tables as given, then on
\* to upload_db_to_github(); a statement that changes no row leaves the
\* file as it is
Commit(t, req, orders, market, oseq, mseq) ==
    LET changed == orders # db.orders \/ market # db.market
        ver == IF changed THEN db.ver + 1 ELSE db.ver
    IN  /\ db' = [orders |-> orders, market |-> market, oseq |-> oseq,
                  mseq |-> mseq, ver |-> ver]
        /\ localFile' = IF changed
                        THEN [content |-> VerName(ver), mtime |-> now]
                        ELSE localFile
        /\ thr' = [thr EXCEPT ![t] = [req EXCEPT !.pc = "read",
                                                 !.committed = TRUE,
                                                 !.ver = ver]]

httpFrame == <<cfg, entry, pc, now, run, sync, branch, writes, startLocal,
               startRemote, syncLocal, netOk, call>>

\* POST /order
Order(t) ==
    /\ Accept(t)
    /\ \E req \in PublicRequests("order", {0}), o \in OrderInputs :
         IF req.bad
         THEN Refuse(t, req, 500)
         ELSE LET r == compute_fee(strip(o.pickup), strip(o.drop),
                                   strip(o.items), strip(o.time))
              IN  Commit(t, [req EXCEPT !.id = db.oseq + 1],
                         Insert(db.orders, db.oseq + 1,
                                OrderRow(strip(o.pickup), strip(o.drop),
                                         r.fee, r.extras)),
                         db.market, db.oseq + 1, db.mseq)
    /\ UNCHANGED <<httpFrame, remoteFile, backups>>

\* POST /market
MarketPost(t) ==
    /\ Accept(t)
    /\ \E req \in PublicRequests("market_post", {0}) :
         IF req.bad
         THEN Refuse(t, req, 500)
         ELSE Commit(t, [req EXCEPT !.id = db.mseq + 1], db.orders,
                     Insert(db.market, db.mseq + 1,
                            ListingRow("new", "d", 5, "cash")),
                     db.oseq, db.mseq + 1)
    /\ UNCHANGED <<httpFrame, remoteFile, backups>>

\* PUT /market/<id>: title, description, price and payment are all set,
\* to '' or 0 when the body does not name them
MarketEdit(t) ==
    /\ Accept(t)
    /\ \E req \in PublicRequests("market_edit", Ids) :
         IF req.bad
         THEN Refuse(t, req, 500)
         ELSE Commit(t, req, db.orders,
                     Update(Update(Update(Update(db.market,
                         req.id, "title", "x"), req.id, "description", ""),
                         req.id, "price", 0), req.id, "payment", ""),
                     db.oseq, db.mseq)
    /\ UNCHANGED <<httpFrame, remoteFile, backups>>

\* DELETE /market/<id>
MarketDelete(t) ==
    /\ Accept(t)
    /\ \E req \in PublicRequests("market_delete", Ids) :
         /\ ~req.bad
         /\ Commit(t, req, db.orders, Delete(db.market, req.id),
                   db.oseq, db.mseq)
    /\ UNCHANGED <<httpFrame, remoteFile, backups>>

\* GET /api/orders
ApiOrders(t) ==
    /\ Accept(t)
    /\ \E req \in AdminRequests("api_orders") :
         /\ req.id = 1
         /\ IF ~CheckAdmin(req) THEN Refuse(t, req, 401)
            ELSE Serve(t, req, db.orders, db.market)
    /\ UNCHANGED <<httpFrame, remoteFile, backups>>

\* GET /api/market
ApiMarket(t) ==
    /\ Accept(t)
    /\ Serve(t, [Idle EXCEPT !.kind = "api_market"], EmptyRows,
             fetch_market_rows(db.market, FALSE))
    /\ UNCHANGED <<httpFrame, remoteFile, backups>>

\* GET /api/market/public
ApiMarketPublic(t) ==
    /\ Accept(t)
    /\ Serve(t, [Idle EXCEPT !.kind = "api_market_public"], EmptyRows,
             fetch_market_rows(db.market, TRUE))
    /\ UNCHANGED <<httpFrame, remoteFile, backups>>

\* GET /api/orders/public
PublicOrders(t) ==
    /\ Accept(t)
    /\ Serve(t, [Idle EXCEPT !.kind = "public_orders"],
             [i \in DOMAIN db.orders |->
                 [f \in PublicOrderColumns |-> db.orders[i][f]]],
             EmptyRows)
    /\ UNCHANGED <<httpFrame, remoteFile, backups>>

\* POST /1q2w3e/mark/<oid>
Mark(t) ==
    /\ Accept(t)
    /\ \E req \in AdminRequests("mark") :
         IF ~CheckAdmin(req) THEN Refuse(t, req, 401)
         ELSE Commit(t, req, Update(db.orders, req.id, "status", "delivered"),
                     db.market, db.oseq, db.mseq)
    /\ UNCHANGED <<httpFrame, remoteFile, backups>>

\* POST /1q2w3e/market/mark/<mid>
MarketMark(t) ==
    /\ Accept(t)
    /\ \E req \in AdminRequests("market_mark") :
         IF ~CheckAdmin(req) THEN Refuse(t, req, 401)
         ELSE Commit(t, req, db.orders,
                     Update(db.market, req.id, "status", "sold"),
                     db.oseq, db.mseq)
    /\ UNCHANGED <<httpFrame, remoteFile, backups>>

\* POST /1q2w3e/payment/<oid>/approve
ApprovePayment(t) ==
    /\ Accept(t)
    /\ \E req \in AdminRequests("approve_payment") :
         IF ~CheckAdmin(req) THEN Refuse(t, req, 401)
         ELSE Commit(t, req,
                     Update(db.orders, req.id, "payment_status", "approved"),
                     db.market, db.oseq, db.mseq)
    /\ UNCHANGED <<httpFrame, remoteFile, backups>>

\* POST /1q2w3e/payment/<oid>/disapprove
DisapprovePayment(t) ==
    /\ Accept(t)
    /\ \E req \in AdminRequests("disapprove_payment") :
         IF ~CheckAdmin(req) THEN Refuse(t, req, 401)
         ELSE Commit(t, req,
                     Update(db.orders, req.id, "payment_status", "disapproved"),
                     db.market, db.oseq, db.mseq)
    /\ UNCHANGED <<httpFrame, remoteFile, backups>>

\* POST /1q2w3e/order/delete/<oid>
DeleteOrder(t) ==
    /\ Accept(t)
    /\ \E req \in AdminRequests("delete_order") :
         IF ~CheckAdmin(req) THEN Refuse(t, req, 401)
         ELSE Commit(t, req, Delete(db.orders, req.id), db.market,
                     db.oseq, db.mseq)
    /\ UNCHANGED <<httpFrame, remoteFile, backups>>

\* POST /1q2w3e/market/delete/<mid>
DeleteMarket(t) ==
    /\ Accept(t)
    /\ \E req \in AdminRequests("delete_market") :
         IF ~CheckAdmin(req) THEN Refuse(t, req, 401)
         ELSE Commit(t, req, db.orders, Delete(db.market, req.id),
                     db.oseq, db.mseq)
    /\ UNCHANGED <<httpFrame, remoteFile, backups>>

\* POST /1q2w3e/order/edit/<oid>
EditOrder(t) ==
    /\ Accept(t)
    /\ \E req \in EditRequests("edit_order", OrderFields) :
         IF ~CheckAdmin(req) THEN Refuse(t, req, 401)
         ELSE IF req.field \notin OrderEditable THEN Refuse(t, req, 400)
         ELSE Commit(t, req,
                     Update(db.orders, req.id, req.field, NewValue(req.field)),
                     db.market, db.oseq, db.mseq)
    /\ UNCHANGED <<httpFrame, remoteFile, backups>>

\* POST /1q2w3e/market/edit/<mid>
EditMarket(t) ==
    /\ Accept(t)
    /\ \E req \in EditRequests("edit_market", MarketFields) :
         IF ~CheckAdmin(req) THEN Refuse(t, req, 401)
         ELSE IF req.field \notin MarketEditable THEN Refuse(t, req, 400)
         ELSE Commit(t, req, db.orders,
                     Update(db.market, req.id, req.field, NewValue(req.field)),
                     db.oseq, db.mseq)
    /\ UNCHANGED <<httpFrame, remoteFile, backups>>

\* upload_db_to_github, lines 305-309: the sha of the contents GET when it
\* answers 200, else None (mutant: no sha is taken from the answer)
PushShaNever(status, remote) == NoSha
PushSha(status, remote) ==
    IF status = 200 THEN BlobSha(remote.content) ELSE NoSha

GetOutcomes == {"ok", "fail"}

\* the status of the contents GET (0: the request or r.json() raised)
GetStatus(remote, o) ==
    IF o = "fail" THEN 0
    ELSE IF remote = NoBlob THEN 404
    ELSE 200

\* the handler returns, upload_db_to_github having returned
Respond(t, put) ==
    thr' = [thr EXCEPT ![t] = [@ EXCEPT !.pc = "done", !.put = put,
                                        !.response = HandlerResponse(put.status)]]

\* upload_db_to_github, lines 292-294: nothing is done without token and
\* repository (mutant: the push goes on without them)
PushDisabledNever(configured) == FALSE
PushDisabled(configured) == ~configured

\* upload_db_to_github, lines 292-302: configuration, file, bytes
PushRead(t) ==
    /\ thr[t].pc = "read"
    /\ IF PushDisabled(cfg) \/ localFile = NoFile
       THEN Respond(t, NoPut)
       ELSE thr' = [thr EXCEPT ![t] = [@ EXCEPT !.pc = "get",
                                               !.bytes = localFile.content,
                                               !.readVer = db.ver]]
    /\ UNCHANGED <<httpFrame, db, localFile, remoteFile, backups>>

\* upload_db_to_github, lines 305-309: fetch the current remote sha
PushGet(t) ==
    /\ thr[t].pc = "get"
    /\ \E o \in GetOutcomes :
         LET status == GetStatus(remoteFile, o)
         IN  thr' = [thr EXCEPT ![t] = [@ EXCEPT
                        !.pc = "put",
                        !.getRemote = IF status = 200 THEN remoteFile.content
                                      ELSE "None",
                        !.sha = PushSha(status, remoteFile)]]
    /\ UNCHANGED <<httpFrame, db, localFile, remoteFile, backups>>

\* upload_db_to_github, lines 311-316: put the bytes to the primary path
PushPut(t) ==
    /\ thr[t].pc = "put"
    /\ \E o \in PutOutcomes :
         LET rec == PutRecord(remoteFile, backups, "primary", 0,
                              thr[t].bytes, thr[t].sha, o)
         IN  /\ remoteFile' = IF Accepted(rec.status)
                              THEN [content |-> rec.content, date |-> now]
                              ELSE remoteFile
             /\ Respond(t, rec)
    /\ UNCHANGED <<httpFrame, db, localFile, backups>>

\* one process from start-up on: orders.db and the remote blob differ and
\* carry the same date
InitHttp ==
    /\ cfg \in BOOLEAN
    /\ entry = "boot"
    /\ pc = StartPc(entry)
    /\ now = MaxInitTime
    /\ run = 1
    /\ localFile = [content |-> "dbA", mtime |-> 1]
    /\ remoteFile = [content |-> "dbB", date |-> 1]
    /\ backups = {}
    /\ sync = NoSync
    /\ branch = "none"
    /\ writes = <<>>
    /\ startLocal = localFile
    /\ startRemote = remoteFile
    /\ syncLocal = localFile
    /\ netOk = TRUE
    /\ call = NoCall
    /\ db = TablesOf(localFile.content)
    /\ thr = [t \in Threads |-> Idle]

NextHttp ==
    \/ InitMainDb
    \/ SyncDisabled
    \/ Fetch
    \/ Decide
    \/ Backup
    \/ PutPrimary
    \/ \E t \in Threads : Order(t)
    \/ \E t \in Threads : MarketPost(t)
    \/ \E t \in Threads : MarketEdit(t)
    \/ \E t \in Threads : MarketDelete(t)
    \/ \E t \in Threads : ApiOrders(t)
    \/ \E t \in Threads : ApiMarket(t)
    \/ \E t \in Threads : ApiMarketPublic(t)
    \/ \E t \in Threads : PublicOrders(t)
    \/ \E t \in Threads : Mark(t)
    \/ \E t \in Threads : MarketMark(t)
    \/ \E t \in Threads : ApprovePayment(t)
    \/ \E t \in Threads : DisapprovePayment(t)
    \/ \E t \in Threads : DeleteOrder(t)
    \/ \E t \in Threads : DeleteMarket(t)
    \/ \E t \in Threads : EditOrder(t)
    \/ \E t \in Threads : EditMarket(t)
    \/ \E t \in Threads : PushRead(t)
    \/ \E t \in Threads : PushGet(t)
    \/ \E t \in Threads : PushPut(t)

SpecHttp == InitHttp /\ [][NextHttp]_vars

----------------------------------------------------------------------------
TypeOK ==
    /\ cfg \in BOOLEAN
    /\ pc \in {"init_main_db", "sync", "decide", "backup", "put", "done", "crashed"}
    /\ now \in 1..MaxTime
    /\ run \in 1..MaxRuns
    /\ Len(writes) <= 2

----------------------------------------------------------------------------
(* Vocabulary of the properties.  These are stated on the values the        *)
(* reconciler has read, with the arithmetic written out, not through the    *)
(* operators that model its decisions.                                      *)

Finished == pc = "done"

\* the fetch found the remote blob and the local file was there
BothExist ==
    /\ cfg
    /\ sync.status = 200
    /\ sync.remote_content # "None"
    /\ sync.local_exists

DatesKnown == sync.remote_epoch # 0 /\ sync.local_epoch # 0

LocalStrictlyNewer == DatesKnown /\ sync.local_epoch - sync.remote_epoch > 1

RemoteStrictlyNewer == DatesKnown /\ sync.remote_epoch - sync.local_epoch > 1

ContentDiffers == syncLocal.content # sync.remote_content

\* local is treated as the winner over an existing remote
LocalWins ==
    /\ BothExist
    /\ \/ LocalStrictlyNewer
       \/ ~RemoteStrictlyNewer /\ ContentDiffers

\* a database that holds rows
HoldsRows(c) == c \in {"dbA", "dbB"}

Paths(ws) == [i \in DOMAIN ws |-> ws[i].path]

IsPrefix(s, t) == Len(s) <= Len(t) /\ \A i \in DOMAIN s : s[i] = t[i]

----------------------------------------------------------------------------
(* C1: in the boot sequence, when the remote blob is present and no local   *)
(* database file exists when the process starts, then once the reconciler   *)
(* has finished the local database holds the remote content verbatim and    *)
(* no remote write was issued.  (Stated for a remote database that holds    *)
(* rows and for runs in which every network call succeeds.)                 *)
C1_BootPullsRemoteVerbatim ==
    ( /\ entry = "boot"
      /\ Finished
      /\ startLocal = NoFile
      /\ HoldsRows(startRemote.content)
      /\ cfg
      /\ netOk )
    => /\ localFile.content = startRemote.content
       /\ writes = <<>>

(* C2: the reconciler never loses remote data: every accepted primary-path  *)
(* write that replaces different remote content comes after an accepted     *)
(* backup write holding the replaced content.  (Stated for replaced content *)
(* that holds rows; the claim itself makes no such exception.)              *)
C2_BackupBeforeOverwrite ==
    \A i \in DOMAIN writes :
        ( /\ writes[i].path = "primary"
          /\ writes[i].status \in {200, 201}
          /\ HoldsRows(writes[i].replaced)
          /\ writes[i].replaced # writes[i].content )
        => \E j \in 1..(i - 1) :
              /\ writes[j].path = "backup"
              /\ writes[j].status \in {200, 201}
              /\ writes[j].content = writes[i].replaced

(* C3: reconciliation is idempotent: in a second run with no local mutation *)
(* in between, no remote write is issued.  (Stated for runs in which every  *)
(* network call succeeds and the remote database holds rows.)               *)
C3_SecondRunIssuesNoWrite ==
    (run = 2 /\ netOk /\ HoldsRows(startRemote.content)) => writes = <<>>

(* C4: when the mirror is not configured, or the fetch request fails or     *)
(* returns an error, the reconciler issues no remote write and leaves the   *)
(* local database file as it found it.                                      *)
C4_UnreachableIsNoOp ==
    (Finished /\ (~cfg \/ sync.status \in {0, 500}))
    => /\ writes = <<>>
       /\ localFile = syncLocal

C5_Expected ==
    IF LocalStrictlyNewer /\ sync.remote_content = ""
    THEN <<"primary">>
    ELSE <<"backup", "primary">>

C7_RemoteNewerPull ==
    (BothExist /\ RemoteStrictlyNewer)
    => /\ writes = <<>>
       /\ remoteFile = startRemote
       /\ Finished => localFile.content = sync.remote_content

C7_Witness ==
    /\ Finished
    /\ BothExist
    /\ RemoteStrictlyNewer
    /\ ContentDiffers
    /\ localFile.content = startRemote.content
    /\ localFile.mtime > syncLocal.mtime

C9_RemoteAbsent ==
    (cfg /\ sync.status = 404)
    => IF sync.local_exists
       THEN /\ localFile = syncLocal
            /\ Len(writes) <= 1
            /\ Finished =>
                 /\ Len(writes) = 1
                 /\ writes[1].path = "primary"
                 /\ writes[1].content = syncLocal.content
                 /\ writes[1].sha = <<>>
       ELSE /\ writes = <<>>
            /\ localFile = NoFile

C9_Witness ==
    /\ Finished
    /\ cfg
    /\ sync.status = 404
    /\ sync.local_exists
    /\ Len(writes) = 1
    /\ writes[1].status = 201
    /\ remoteFile.content = syncLocal.content

(* C10: the reconciler always terminates normally: whatever way the fetch,  *)
(* the commit lookup, the backup put and the primary put fail (network      *)
(* error, error status, malformed response), no exception escapes it.       *)
C10_NoExceptionEscapes ==
    pc # "crashed"

----------------------------------------------------------------------------
(* Vocabulary of the properties of the HTTP surface *)

MutationKinds == {"order", "market_post", "market_edit", "market_delete",
                  "mark", "market_mark", "approve_payment",
                  "disapprove_payment", "delete_order", "delete_market",
                  "edit_order", "edit_market"}

AdminKinds == {"api_orders", "mark", "market_mark", "approve_payment",
               "disapprove_payment", "delete_order", "delete_market",
               "edit_order", "edit_market"}

\* the step in which thread t's handler takes its request
Handled(t) == thr[t].pc = "new" /\ thr'[t].pc # "new"

\* a step of the push thread t's handler called
PushStep(t) == thr[t].pc \in {"read", "get", "put"} /\ thr'[t] # thr[t]

\* the rows that exist stay, unchanged
RowsKept(old, new) ==
    \A i \in DOMAIN old : i \in DOMAIN new /\ new[i] = old[i]

(* C11: no HTTP mutation request waits on the Post-Mutation Pusher: while   *)
(* the remote calls of the push started for a mutation are outstanding, the *)
(* response to that mutation's request has already been returned.           *)
C11_ResponseBeforePush ==
    \A t \in Threads :
        thr[t].pc \in {"get", "put"} => thr[t].response # 0

(* C12: a failure of the post-mutation push never rolls back the local      *)
(* mutation and never changes the response: no step of the push changes a   *)
(* row or the database file, and whatever the fetch of the revision token   *)
(* and the put answer, the handler returns the success response.            *)
C12_PushFailureInvisible ==
    [][\A t \in Threads :
          PushStep(t) =>
             /\ db' = db
             /\ localFile' = localFile
             /\ thr'[t].pc = "done" => thr'[t].response = 200]_vars

C12_Witness ==
    \E t \in Threads :
        /\ thr[t].pc = "done"
        /\ thr[t].kind = "market_post"
        /\ thr[t].put.path = "primary"
        /\ thr[t].put.status = 409
        /\ thr[t].response = 200
        /\ thr[t].id \in DOMAIN db.market

(* C13: with the mirror configured, every successful create, update or      *)
(* delete is followed by a put attempt to the primary path of the database  *)
(* file as read after the request's commit, carrying the sha the contents   *)
(* GET of this push returned when it returned one.                          *)
C13_PushAfterMutation ==
    \A t \in Threads :
        (cfg /\ thr[t].pc = "done" /\ thr[t].kind \in MutationKinds
             /\ thr[t].response = 200)
        => /\ thr[t].put.path = "primary"
           /\ thr[t].readVer >= thr[t].ver
           /\ thr[t].readVer > 0 => thr[t].put.content = VerName(thr[t].readVer)
           /\ thr[t].readVer = db.ver => thr[t].put.content = localFile.content
           /\ thr[t].put.sha = IF thr[t].getRemote = "None" THEN NoSha
                               ELSE <<"blob", thr[t].getRemote>>

C13_Witness ==
    \E t \in Threads :
        /\ cfg
        /\ thr[t].pc = "done"
        /\ thr[t].kind = "delete_order"
        /\ thr[t].ver = 1
        /\ thr[t].put.sha # NoSha
        /\ thr[t].put.status = 200
        /\ remoteFile.content = "v1"

(* C14: no post-mutation push runs concurrently with or before the startup  *)
(* reconciliation: a request is taken, and so a push is started, only when  *)
(* the reconciler has finished.                                             *)
C14_PushAfterReconciliation ==
    \A t \in Threads : thr[t].pc # "new" => pc = "done"

C14_Witness ==
    \E t \in Threads :
        /\ thr[t].pc = "put"
        /\ pc = "done"
        /\ Len(writes) = 2
        /\ branch = "conflict"

(* C15: existing Orders and Listings are modified or deleted only by admin  *)
(* actions: a request that does not carry the admin secret leaves every     *)
(* existing Order row and every existing Listing row unchanged and present. *)
C15_OnlyAdminModifies ==
    [][\A t \in Threads :
          (Handled(t) /\ thr'[t].key # "1q2w3e")
          => /\ RowsKept(db.orders, db'.orders)
             /\ RowsKept(db.market, db'.market)]_vars

(* C17: on every admin route a request that fails the admin check gets the  *)
(* unauthorized response, changes no row in either table and triggers no    *)
(* remote push.                                                             *)
C17_UnauthorizedIsInert ==
    [][\A t \in Threads :
          (Handled(t) /\ thr'[t].kind \in AdminKinds /\ thr'[t].key # "1q2w3e")
          => /\ thr'[t].pc = "done"
             /\ thr'[t].response = 401
             /\ thr'[t].put = NoPut
             /\ db' = db
             /\ localFile' = localFile
             /\ remoteFile' = remoteFile]_vars

C17_Witness ==
    \E t \in Threads :
        /\ thr[t].pc = "done"
        /\ thr[t].kind = "delete_order"
        /\ thr[t].key = "wrong"
        /\ thr[t].response = 401
        /\ 1 \in DOMAIN db.orders


(* C16 as claimed: a request to an admin route is authorized if and only if *)
(* the key it supplies equals the single configured admin secret.  (Stated  *)
(* for requests that supply a key through at most one of header, query      *)
(* parameter and JSON body.)                                                *)
C16_Original ==
    (call.op = "require_admin"
       /\ Cardinality({c \in {"h", "q", "b"} :
              \/ c = "h" /\ call.header \notin {"None", ""}
              \/ c = "q" /\ call.query \notin {"None", ""}
              \/ c = "b" /\ call.is_json /\ call.body \notin {"None", ""}}) <= 1)
    => LET supplied == IF call.header \notin {"None", ""} THEN call.header
                       ELSE IF call.query \notin {"None", ""} THEN call.query
                       ELSE IF call.is_json THEN call.body ELSE "None"
       IN  call.result <=> (supplied \notin {"None", ""} /\ supplied = call.admin_key)

\* the key require_admin looks at: the header's, else the query parameter's,
\* else the JSON body field's
C16_SuppliedKey ==
    IF call.header \notin {"None", ""} THEN call.header
    ELSE IF call.query \notin {"None", ""} THEN call.query
    ELSE IF call.is_json THEN call.body
    ELSE "None"

(* C16 as amended: a request to an admin route is authorized if and only if *)
(* the key it supplies (the X-ADMIN-KEY header, else the admin_key query    *)
(* parameter, else the key field of a JSON body) is not empty and equals    *)
(* the configured ADMIN_KEY or the admin password stored in app.db.         *)
C16_AuthorizedIff ==
    call.op = "require_admin"
    => (call.result <=>
          /\ C16_SuppliedKey \notin {"None", ""}
          /\ C16_SuppliedKey \in {call.admin_key, call.db_pw})

C16_Witness ==
    /\ call.op = "require_admin"
    /\ call.env = "envkey"
    /\ call.admin_key = "envkey"
    /\ call.header = "None"
    /\ call.query = "None"
    /\ call.is_json
    /\ call.body = "1q2w3e"
    /\ call.db_pw = "1q2w3e"
    /\ call.result

\* the surcharges of the tags of a fee result
C18_Surcharges(extras) ==
    LET tags == {extras[i] : i \in DOMAIN extras}
    IN  (IF "supermarket_pickup" \in tags THEN 20 ELSE 0)
        + (IF "heavy_item" \in tags THEN 40 ELSE 0)
        + (IF "night" \in tags THEN 30 ELSE 0)

(* C18: the fee base depends only on pickup and drop: 79 when both name the *)
(* same local zone, 99 when the pair is not local-zone and the pickup or    *)
(* the drop names the secondary zone (by name or abbreviation), 150         *)
(* otherwise, whatever the item text and the preferred time.                *)
C18_FeeBase ==
    call.op = "compute_fee"
    => call.fee - C18_Surcharges(call.extras)
         = (IF call.pickup.zone = call.drop.zone
               /\ call.pickup.zone \in {"ebenezer", "matangi"}
            THEN 79
            ELSE IF "secondary" \in {call.pickup.zone, call.drop.zone}
            THEN 99
            ELSE 150)

(* C19: is_night_time returns true exactly when the preferred-time string   *)
(* denotes an hour of day in [21,24) or [0,6), and false for every other    *)
(* hour and for empty or unparseable input.                                 *)
C19_NightExactly ==
    call.op = "is_night_time"
    => (call.result <=> call.time.hour \in (21..23) \cup (0..5))

(* C20: surcharges are additive and independent: the fee is the base plus   *)
(* 20 if the supermarket rule matches, plus 40 if the heavy-item rule       *)
(* matches, plus 30 if the time is night (an hour in [21,24) or [0,6)), and *)
(* the tags are exactly those of the rules that matched; a local-zone pair  *)
(* with groceries and water at 10pm gives 169 and all three tags.           *)
C20_Additive ==
    call.op = "compute_fee"
    => LET tags == {call.extras[i] : i \in DOMAIN call.extras}
           sup == call.items.supermarket
           heavy == call.items.heavy
           night == call.time.hour \in (21..23) \cup (0..5)
           base == call.fee - (IF sup THEN 20 ELSE 0) - (IF heavy THEN 40 ELSE 0)
                            - (IF night THEN 30 ELSE 0)
       IN  /\ tags = (IF sup THEN {"supermarket_pickup"} ELSE {})
                     \cup (IF heavy THEN {"heavy_item"} ELSE {})
                     \cup (IF night THEN {"night"} ELSE {})
           /\ Len(call.extras) = Cardinality(tags)
           /\ base \in {79, 99, 150}
           /\ (sup /\ heavy /\ call.time.hour = 22
                 /\ call.pickup.zone = "ebenezer" /\ call.drop.zone = "ebenezer")
                => call.fee = 169

(* C21: an order's stored fee and surcharge tags are fixed at creation:     *)
(* POST /order stores what compute_fee returned (169 and the three tags for *)
(* the order submitted here), and no later request, whatever it edits,      *)
(* marks, approves or disapproves, changes the fee or the tags of an order  *)
(* that stays in the table.                                                 *)
C21_FeeFixedAtCreation ==
    [][/\ \A i \in DOMAIN db.orders :
             i \in DOMAIN db'.orders
             => /\ db'.orders[i].fee = db.orders[i].fee
                /\ db'.orders[i].extras = db.orders[i].extras
       /\ \A i \in (DOMAIN db'.orders) \ (DOMAIN db.orders) :
             /\ db'.orders[i].fee = 169
             /\ db'.orders[i].extras = <<"supermarket_pickup", "heavy_item", "night">>]_vars

C21_Witness ==
    \E t, u \in Threads :
        /\ thr[t].kind = "order"
        /\ thr[u].kind = "edit_order"
        /\ thr[u].field = "pickup"
        /\ thr[u].committed
        /\ thr[u].id = thr[t].id
        /\ thr[t].id \in DOMAIN db.orders
        /\ db.orders[thr[t].id].pickup = <<"x">>
        /\ db.orders[thr[t].id].fee = 169

\* the row i of a table is as it was, but for field f
C22_OnlyField(old, new, i, f) ==
    /\ DOMAIN new = DOMAIN old
    /\ \A j \in DOMAIN old :
          \A g \in DOMAIN old[j] :
              (j # i \/ g # f) => new[j][g] = old[j][g]

(* C22: an admin field edit changes a row only when the named field is in   *)
(* the entity's allow-list (pickup, drop for Orders; title, description,    *)
(* price for Listings), and then changes only that field of that row; an    *)
(* edit naming any other field is rejected with a client error, changes no  *)
(* row and triggers no remote push.                                         *)
C22_AllowListedEdit ==
    [][\A t \in Threads :
          (Handled(t) /\ thr'[t].kind \in {"edit_order", "edit_market"}
                      /\ thr'[t].key = "1q2w3e")
          => LET req == thr'[t]
                 allowed == IF req.kind = "edit_order"
                            THEN {"pickup", "drop_loc"}
                            ELSE {"title", "description", "price"}
             IN  IF req.field \in allowed
                 THEN /\ req.response # 400
                      /\ IF req.kind = "edit_order"
                         THEN /\ C22_OnlyField(db.orders, db'.orders, req.id, req.field)
                              /\ db'.market = db.market
                         ELSE /\ C22_OnlyField(db.market, db'.market, req.id, req.field)
                              /\ db'.orders = db.orders
                 ELSE /\ req.pc = "done"
                      /\ req.response = 400
                      /\ req.put = NoPut
                      /\ db' = db
                      /\ localFile' = localFile
                      /\ remoteFile' = remoteFile]_vars

C22_Witness ==
    \E t \in Threads :
        /\ thr[t].pc = "done"
        /\ thr[t].kind = "edit_market"
        /\ thr[t].key = "1q2w3e"
        /\ thr[t].field = "status"
        /\ thr[t].response = 400
        /\ 1 \in DOMAIN db.market
        /\ db.market[1].status = ""

(* C23: the full unfiltered contents of the Orders and Listings tables are  *)
(* returned only to requests that pass the admin check: a request without   *)
(* the admin secret is returned no Order row, and no Listing row but those  *)
(* whose status is available.                                               *)
C23_FullTablesAdminOnly ==
    [][\A t \in Threads :
          (Handled(t) /\ thr'[t].key # "1q2w3e")
          => /\ DOMAIN thr'[t].body.orders = {}
             /\ \A i \in DOMAIN thr'[t].body.market :
                   thr'[t].body.market[i].status = "available"]_vars

\* a finished request that asked for a change it was entitled to: a
\* well-formed body, the admin key on an admin route, an editable field
C24_ValidMutation(t) ==
    /\ thr[t].pc = "done"
    /\ thr[t].kind \in MutationKinds
    /\ ~thr[t].bad
    /\ thr[t].kind \in AdminKinds => thr[t].key = "1q2w3e"
    /\ thr[t].kind = "edit_order" => thr[t].field \in {"pickup", "drop_loc"}
    /\ thr[t].kind = "edit_market" => thr[t].field \in {"title", "description", "price"}

(* C24: when the repository identity or the access token is absent the      *)
(* system runs local-only: neither the boot reconciliation nor a            *)
(* post-mutation push issues a remote read or write, and every HTTP         *)
(* create, update or delete still commits locally and returns success.      *)
C24_LocalOnly ==
    ~cfg
    => /\ sync = NoSync
       /\ writes = <<>>
       /\ backups = {}
       /\ remoteFile = startRemote
       /\ \A t \in Threads :
             /\ thr[t].pc \notin {"get", "put"}
             /\ thr[t].put = NoPut
             /\ thr[t].getRemote = "None"
             /\ C24_ValidMutation(t)
                  => /\ thr[t].committed
                     /\ thr[t].response = 200
                     /\ thr[t].ver <= db.ver

C24_Witness ==
    /\ ~cfg
    /\ branch = "disabled"
    /\ \E t \in Threads :
          /\ thr[t].pc = "done"
          /\ thr[t].kind = "order"
          /\ thr[t].response = 200
          /\ thr[t].id \in DOMAIN db.orders
          /\ db.orders[thr[t].id].fee = 169
          /\ localFile.content = "v1"

(* C25: when the post-mutation pushes of several mutations interleave and   *)
(* every put is accepted by the remote, the remote primary content after    *)
(* the last push has completed equals the final local database content.     *)
C25_LastPushLeavesLocal ==
    (/\ cfg
     /\ \A t \in Threads :
           /\ thr[t].pc = "done"
           /\ thr[t].put.path = "primary"
           /\ thr[t].put.status \in {200, 201})
    => remoteFile.content = localFile.content

(* C27: every Listing's status is always one of available or sold; in      *)
(* particular a Listing created through POST /market, while it is in the    *)
(* table, is available until it is marked sold.                             *)
C27_StatusAvailableOrSold ==
    \A t \in Threads :
        (thr[t].kind = "market_post" /\ thr[t].committed
            /\ thr[t].id \in DOMAIN db.market)
        => db.market[thr[t].id].status \in {"available", "sold"}

(* C26: if the mirror is configured and every network call made by the      *)
(* Startup Reconciler succeeds, then when it finishes the local database    *)
(* content and the remote primary content are byte-identical, whichever     *)
(* branch of the decision table was taken.                                  *)
C26_IdenticalAfterSync ==
    (cfg /\ Finished /\ netOk /\ branch # "none")
    => localFile.content = remoteFile.content

C26_Witness ==
    /\ cfg
    /\ Finished
    /\ netOk
    /\ branch = "conflict"
    /\ Len(writes) = 2
    /\ startLocal.content # startRemote.content
    /\ remoteFile.content = startLocal.content
    /\ localFile.content = remoteFile.content

====
